---- MODULE Spec2Model ----
(***************************************************************************)
(* useAdvancedDebounce (src/src/hooks/useDebounce.ts): a debounced         *)
(* callback with cancel, flush and a pending flag, together with the host  *)
(* timer service (setTimeout / clearTimeout) and the React lifecycle       *)
(* (render, passive effect, unmount) it runs on. Each other component      *)
(* (useDebounce, ...) has its own variables and its own specification, in  *)
(* which the variables of the rest stay at their initial values.           *)
(***************************************************************************)
EXTENDS Integers, Sequences, FiniteSets, TLC

\* ---------------------------------------------------------------- bounds
\* Number of setTimeout calls (timer handles) a behaviour may make.
MaxTimers == 2
\* Number of executions of the bound callback a behaviour may make.
MaxCalls == 2
\* Largest delay, in clock ticks; the delay prop ranges over 0..MaxDelay.
MaxDelay == 1

\* The callbacks a render may pass to the hook.
Callbacks == {"cbA", "cbB"}
InitialCallback == "cbA"
\* The argument lists a debounced(...args) call may carry; <<>> is a call
\* without arguments.
ArgLists == {<<>>, <<1>>}
Delays == 0..MaxDelay

\* useRef<... | undefined>(undefined): the value of an unset timeoutRef.
\* Timer handles are the positive integers the host hands out.
Undefined == 0

VARIABLES
    mounted,      \* the owning component is mounted
    callback,     \* the callback prop of the latest render
    delay,        \* the delay prop of the latest render
    callbackRef,  \* callbackRef.current
    timeoutRef,   \* timeoutRef.current: Undefined or a timer handle
    argsRef,      \* argsRef.current: {} is null, {a} is the array a
    isPending,    \* the isPending state
    timers,       \* host: live timers, [id, left] (left: ticks to go)
    nextId,       \* host: the handle the next setTimeout returns
    calls,        \* log: the executions of the bound callback, in order
    cancelled,    \* log: handles of timers that were live when cancel() ran
    sinceTrigger, \* log: ticks since the latest debounced() call (capped)
    trigArgs,     \* log: the arguments of the latest debounced() call
    trigDelay,    \* log: the delay of the latest debounced() call
    trigCb,       \* log: callbackRef.current at the latest debounced() call
    changed       \* log: what the latest debounced() call changed against
                  \*      the pending call it superseded ("args", "delay")

vars == <<mounted, callback, delay, callbackRef, timeoutRef, argsRef,
          isPending, timers, nextId, calls, cancelled, sinceTrigger,
          trigArgs, trigDelay, trigCb, changed>>

\* useDebounce (src/src/hooks/useDebounce.ts:15-29)
VARIABLES
    dvMounted,    \* the owning component is mounted
    dvValue,      \* the value prop of the latest render
    dvDelay,      \* the delay prop of the latest render
    dvDebounced,  \* the debouncedValue state
    dvDeps,       \* the [value, delay] the effect last ran for; <<>> before
                  \* its first run
    dvTimer,      \* the timer handle the last effect run closed over
    dvTimers,     \* host: live timers, [id, left, value] (value: the value
                  \* the timer's function closed over)
    dvNextId,     \* host: the handle the next setTimeout returns
    dvCleared     \* log: number of live timers the effect cleanup cleared

dvVars == <<dvMounted, dvValue, dvDelay, dvDebounced, dvDeps, dvTimer,
            dvTimers, dvNextId, dvCleared>>

\* useLocalStorage (src/src/hooks/useStorage.ts:12-96)
VARIABLES
    lsItem,       \* localStorage's entry for the hook's key: {} is absent,
                  \* {t} is the string t
    lsStored,     \* the storedValue state
    lsClosure,    \* the storedValue the current setValue closed over (the
                  \* state as of the latest render)
    lsEvents,     \* 'storage' events of other tabs' writes, not yet delivered
    lsOp          \* log: the latest operation, its key and newValue (storage
                  \* events), whether its write failed, and the state before

lsVars == <<lsItem, lsStored, lsClosure, lsEvents, lsOp>>

\* useDebounceCallback (useDebounce.ts:44-77), used by the same component as
\* useAdvancedDebounce with the same callback and delay.
VARIABLES
    dcCallbackRef,  \* callbackRef.current
    dcTimeoutRef,   \* timeoutRef.current: a timer handle, or Undefined
    dcTimers,       \* the hook's live host timers [id, left, args]: args
                    \* are the arguments the timer's closure captured
    dcNextId,       \* the handle the host gives the hook's next timer
    dcCalls         \* log: the executions of the bound callback

dcVars == <<dcCallbackRef, dcTimeoutRef, dcTimers, dcNextId, dcCalls>>

\* ToastProvider (ToastContext.tsx:57-97).
VARIABLES
    toasts,       \* the toasts state: the list of toasts [id, duration]
    toTimers,     \* the live auto-dismiss timers [id, left]: id is the toast
                  \* id the timer's closure holds
    toNextId,     \* number of the next toast notify creates
    toOp          \* log: the latest operation, the toast id it names, and
                  \* the list before it

toVars == <<toasts, toTimers, toNextId, toOp>>

\* One fetch run under queryClient's default options (query-client.ts:4-22).
VARIABLES
    rqKind,          \* "query" or "mutation"
    rqState,         \* "idle", "fetching", "success" or "error"
    rqFailureCount,  \* the failure count the library passes to retry
    rqAttempts,      \* log: attempts started
    rqLog            \* log: each failure with the count and error passed,
                     \* and whether the run was retried

rqVars == <<rqKind, rqState, rqFailureCount, rqAttempts, rqLog>>

\* The variables of the components other than useAdvancedDebounce.
others == <<dvVars, lsVars, dcVars, toVars, rqVars>>

allVars == <<vars, others>>

\* The variables of the components other than useDebounce, useLocalStorage,
\* the two callback hooks.
dvRest == <<vars, lsVars, dcVars, toVars, rqVars>>
lsRest == <<vars, dvVars, dcVars, toVars, rqVars>>
eqRest == <<dvVars, lsVars, toVars, rqVars>>
toRest == <<vars, dvVars, lsVars, dcVars, rqVars>>
rqRest == <<vars, dvVars, lsVars, dcVars, toVars>>

hook == <<callbackRef, timeoutRef, argsRef, isPending>>
props == <<mounted, callback, delay>>
host == <<timers, nextId>>
trigLog == <<trigArgs, trigDelay, trigCb, changed>>

\* ------------------------------------------------------------ host timers
\* if (x) ... on a ref holding a timer handle or undefined.
Truthy(ref) == ref # Undefined

\* clearTimeout(id): the timer with that handle, if live, is dropped; a
\* handle that is not live (fired, cleared, undefined) is ignored.
ClearTimeout(ts, id) == {t \in ts : t.id # id}

\* setTimeout(fn, d): a new live timer with a fresh handle.
SetTimeout(ts, id, d) == ts \cup {[id |-> id, left |-> d]}

LiveIds == {t.id : t \in timers}

\* if (timeoutRef.current) { clearTimeout(timeoutRef.current) }
ClearPending == IF Truthy(timeoutRef) THEN ClearTimeout(timers, timeoutRef)
                ELSE timers

\* The array held by a non-null argsRef.
ArgsOf(ref) == CHOOSE a \in ref : TRUE

\* if (argsRef.current): null is falsy, every array (the empty one too) is
\* truthy.
HasArgs == argsRef # {}

\* A plausible slip: invoking the callback the render closed over instead of
\* the ref.
StaleCallback == callback

\* callbackRef.current(...): the function an execution invokes.
BoundCallback == callbackRef

\* One execution of the bound callback, as logged: the callback invoked, the
\* arguments passed, who invoked it ("timer" or "flush"), whether it raised,
\* the handle of the timer it belongs to, and whether the component was
\* mounted.
Execution(via, threw, id) ==
    [cb |-> BoundCallback, args |-> ArgsOf(argsRef), via |-> via,
     threw |-> threw, id |-> id, live |-> mounted]

\* ------------------------------------------------------------ useDebounce
\* The values a render may pass to useDebounce; the first render passes
\* DvInitialValue (the values are interchangeable).
DvValues == {"a", "b", "c"}
DvInitialValue == "a"

\* useState<T>(value): the state after the first render; the effect of the
\* first render has not run yet.
DvInit ==
    /\ dvMounted = TRUE
    /\ dvValue = DvInitialValue
    /\ dvDelay \in Delays
    /\ dvDebounced = DvInitialValue
    /\ dvDeps = <<>>
    /\ dvTimer = Undefined
    /\ dvTimers = {}
    /\ dvNextId = 1
    /\ dvCleared = 0

\* useDebounce is not in use.
DvOff ==
    /\ dvMounted = FALSE
    /\ dvValue = DvInitialValue
    /\ dvDelay = 0
    /\ dvDebounced = DvInitialValue
    /\ dvDeps = <<>>
    /\ dvTimer = Undefined
    /\ dvTimers = {}
    /\ dvNextId = 1
    /\ dvCleared = 0

\* ------------------------------------------------------- useLocalStorage
\* The hook's key and another key of the same localStorage.
LsKey == "app-theme"
LsKeys == {LsKey, "auth-token"}

\* The values the hook may hold, and initialValue.
LsValues == {0, 1, 2}
LsInitial == 0

\* JSON.stringify(v)
Stringify(v) == CASE v = 0 -> "0" [] v = 1 -> "1" [] v = 2 -> "2"

\* The strings a localStorage entry or an event's newValue may hold: JSON
\* texts of the values, a string that is no JSON text, the empty string.
LsTexts == {Stringify(v) : v \in LsValues} \cup {"{oops", ""}

\* JSON.parse(t) returns a value (otherwise it throws a SyntaxError).
Parses(t) == \E v \in LsValues : Stringify(v) = t

\* JSON.parse(t), for a string it parses.
Parse(t) == CHOOSE v \in LsValues : Stringify(v) = t

\* An absent entry (getItem returns null, newValue is null) or a string.
LsItems == {{}} \cup {{t} : t \in LsTexts}
TextOf(item) == CHOOSE t \in item : TRUE

\* readValue(): item ? JSON.parse(item) : initialValue, and initialValue
\* when JSON.parse throws; the empty string is falsy.
ReadValue(item) ==
    IF item # {} /\ TextOf(item) # "" /\ Parses(TextOf(item))
      THEN Parse(TextOf(item))
      ELSE LsInitial

\* A log entry.
LsLog(op, key, newValue, failed, prev) ==
    [op |-> op, key |-> key, newValue |-> newValue, failed |-> failed,
     prev |-> prev]

\* const [storedValue, setStoredValue] = useState<T>(readValue), with any
\* entry in the storage.
LsInit ==
    /\ lsItem \in LsItems
    /\ lsStored = ReadValue(lsItem)
    /\ lsClosure = lsStored
    /\ lsEvents = <<>>
    /\ lsOp = LsLog("mount", LsKey, {}, FALSE, LsInitial)

\* useLocalStorage is not in use.
LsOff ==
    /\ lsItem = {}
    /\ lsStored = LsInitial
    /\ lsClosure = LsInitial
    /\ lsEvents = <<>>
    /\ lsOp = LsLog("off", LsKey, {}, FALSE, LsInitial)

\* ---------------------------------------------------- useDebounceCallback
\* useRef(callback), useRef(undefined): no timer, no execution yet.
DcInit ==
    /\ dcCallbackRef = InitialCallback
    /\ dcTimeoutRef = Undefined
    /\ dcTimers = {}
    /\ dcNextId = 1
    /\ dcCalls = <<>>

\* useDebounceCallback is not in use.
DcOff == DcInit

\* ---------------------------------------------------------- ToastProvider
\* const DEFAULT_DURATION = 5000
DEFAULT_DURATION == 5000

\* The model's clock advances in steps of half the default duration.
ToStep == DEFAULT_DURATION \div 2

\* options?.duration as notify may receive it: {} is undefined, {d} is the
\* number d (milliseconds).
ToDurationOptions == {{}, {-1}, {0}, {ToStep}, {DEFAULT_DURATION}}

\* options?.duration ?? DEFAULT_DURATION: only undefined takes the default;
\* 0 and negative numbers stay.
ToDuration(opt) == IF opt = {} THEN DEFAULT_DURATION
                   ELSE CHOOSE d \in opt : TRUE

ToLog(op, id, prev) == [op |-> op, id |-> id, prev |-> prev]

\* useState<Toast[]>([])
ToInit ==
    /\ toasts = <<>>
    /\ toTimers = {}
    /\ toNextId = 1
    /\ toOp = ToLog("init", 0, <<>>)

\* ToastProvider is not in use.
ToOff == ToInit

\* ------------------------------------------------------------ queryClient
RqKinds == {"query", "mutation"}

\* The errors an attempt may fail with: an ApiError (api-client.ts:7-19,
\* thrown for a response that is not ok) or another error (a network
\* failure, an error of the query function), each with a status.
RqStatuses == {401, 403, 500}
RqErrors == [instanceofApiError : BOOLEAN, status : RqStatuses]

\* No fetch has run.
RqInit ==
    /\ rqKind = "query"
    /\ rqState = "idle"
    /\ rqFailureCount = 0
    /\ rqAttempts = 0
    /\ rqLog = <<>>

\* queryClient is not in use.
RqOff == RqInit

\* The other components are not in use.
OthersOff == DvOff /\ LsOff /\ DcOff /\ ToOff /\ RqOff

\* ------------------------------------------------------------------ Init
\* useRef(callback), useRef(undefined), useRef(null), useState(false). The
\* first render passes InitialCallback (the callbacks are interchangeable).
Init ==
    /\ mounted = TRUE
    /\ callback = InitialCallback
    /\ callbackRef = callback
    /\ delay \in Delays
    /\ timeoutRef = Undefined
    /\ argsRef = {}
    /\ isPending = FALSE
    /\ timers = {}
    /\ nextId = 1
    /\ calls = <<>>
    /\ cancelled = {}
    /\ sinceTrigger = 0
    /\ trigArgs = <<>>
    /\ trigDelay = 0
    /\ trigCb = callback
    /\ changed = {}
    /\ OthersOff

\* --------------------------------------------------------------- actions
\* A render of the owning component with props (c, d). React runs pending
\* passive effects before it renders again, so a render waits for the
\* callbackRef effect of the previous one. debounced is re-created with the
\* new delay during the render (useCallback, deps [delay]).
Render(c, d) ==
    /\ mounted
    /\ callbackRef = callback
    /\ <<c, d>> # <<callback, delay>>
    /\ callback' = c
    /\ delay' = d
    /\ UNCHANGED <<mounted, hook, host, calls, cancelled, sinceTrigger,
                   trigLog>>

\* A plausible slip: the effect also clears the pending timer.
CallbackEffectResets ==
    /\ mounted
    /\ callbackRef # callback
    /\ callbackRef' = callback
    /\ timers' = ClearPending
    /\ UNCHANGED <<props, timeoutRef, argsRef, isPending, nextId, calls,
                   cancelled, sinceTrigger, trigLog>>

\* useEffect(() => { callbackRef.current = callback }, [callback]): runs
\* after the render that changed callback, as a separate step.
CallbackEffect ==
    /\ mounted
    /\ callbackRef # callback
    /\ callbackRef' = callback
    /\ UNCHANGED <<props, timeoutRef, argsRef, isPending, host, calls,
                   cancelled, sinceTrigger, trigLog>>

\* The body of debounced(...args): stored becomes argsRef.current, and the
\* new timer joins the timers in ts.
Schedule(args, stored, ts) ==
    /\ mounted
    /\ nextId <= MaxTimers
    /\ argsRef' = stored
    /\ isPending' = TRUE
    /\ timers' = SetTimeout(ts, nextId, delay)
    /\ timeoutRef' = nextId
    /\ nextId' = nextId + 1
    /\ sinceTrigger' = 0
    /\ trigArgs' = args
    /\ trigDelay' = delay
    /\ trigCb' = callbackRef
    /\ changed' = IF timeoutRef \in LiveIds
                    THEN {x \in {"args"} : trigArgs # args}
                         \cup {x \in {"delay"} : trigDelay # delay}
                    ELSE {}
    /\ UNCHANGED <<props, callbackRef, calls, cancelled>>

\* A plausible slip: the previous timer is not cleared.
DebouncedNoClear(args) == Schedule(args, {args}, timers)

\* A plausible slip: the arguments of a pending call are not replaced.
DebouncedKeepsFirstArgs(args) ==
    Schedule(args, IF HasArgs THEN argsRef ELSE {args}, ClearPending)

\* A plausible slip: a zero delay runs the callback inside the call.
DebouncedSyncAtZero(args) ==
    IF delay = 0
      THEN /\ mounted
           /\ nextId <= MaxTimers
           /\ Len(calls) < MaxCalls
           /\ calls' = Append(calls,
                 [cb |-> BoundCallback, args |-> args, via |-> "timer",
                  threw |-> FALSE, id |-> nextId, live |-> mounted])
           /\ timers' = ClearPending
           /\ timeoutRef' = Undefined
           /\ argsRef' = {}
           /\ isPending' = FALSE
           /\ nextId' = nextId + 1
           /\ sinceTrigger' = 0
           /\ trigArgs' = args
           /\ trigDelay' = delay
           /\ trigCb' = callbackRef
           /\ changed' = {}
           /\ UNCHANGED <<props, callbackRef, cancelled>>
      ELSE Schedule(args, {args}, ClearPending)

\* debounced(...args)
Debounced(args) == Schedule(args, {args}, ClearPending)

\* A plausible slip: cancel() resets the refs and the flag but leaves the
\* host timer running.
CancelKeepsTimer ==
    /\ mounted
    /\ IF Truthy(timeoutRef)
         THEN /\ timeoutRef' = Undefined
              /\ argsRef' = {}
              /\ isPending' = FALSE
              /\ cancelled' = cancelled \cup (LiveIds \cap {timeoutRef})
              /\ UNCHANGED timers
         ELSE UNCHANGED <<timers, timeoutRef, argsRef, isPending, cancelled>>
    /\ UNCHANGED <<props, callbackRef, nextId, calls, sinceTrigger, trigLog>>

\* cancel()
Cancel ==
    /\ mounted
    /\ IF Truthy(timeoutRef)
         THEN /\ timers' = ClearTimeout(timers, timeoutRef)
              /\ timeoutRef' = Undefined
              /\ argsRef' = {}
              /\ isPending' = FALSE
              /\ cancelled' = cancelled \cup (LiveIds \cap {timeoutRef})
         ELSE UNCHANGED <<timers, timeoutRef, argsRef, isPending, cancelled>>
    /\ UNCHANGED <<props, callbackRef, nextId, calls, sinceTrigger, trigLog>>

\* flush(): the callback runs inside flush; when it raises, the statements
\* after the call (argsRef.current = null, setIsPending(false)) are skipped.
Flush ==
    /\ mounted
    /\ IF Truthy(timeoutRef) /\ HasArgs
         THEN /\ Len(calls) < MaxCalls
              /\ timers' = ClearTimeout(timers, timeoutRef)
              /\ timeoutRef' = Undefined
              /\ \E threw \in BOOLEAN :
                    /\ calls' = Append(calls,
                                       Execution("flush", threw, timeoutRef))
                    /\ IF threw
                         THEN UNCHANGED <<argsRef, isPending>>
                         ELSE argsRef' = {} /\ isPending' = FALSE
         ELSE UNCHANGED <<timers, timeoutRef, argsRef, isPending, calls>>
    /\ UNCHANGED <<props, callbackRef, nextId, cancelled, sinceTrigger,
                   trigLog>>

\* The host fires a live timer whose delay has elapsed: the function passed
\* to setTimeout in debounced runs. When the callback raises, the statements
\* after the call are skipped.
Fire(t) ==
    /\ t \in timers
    /\ t.left = 0
    /\ timers' = timers \ {t}
    /\ IF HasArgs
         THEN /\ Len(calls) < MaxCalls
              /\ \E threw \in BOOLEAN :
                    /\ calls' = Append(calls, Execution("timer", threw, t.id))
                    /\ IF threw
                         THEN UNCHANGED <<argsRef, timeoutRef, isPending>>
                         ELSE /\ argsRef' = {}
                              /\ timeoutRef' = Undefined
                              /\ isPending' = FALSE
         ELSE /\ timeoutRef' = Undefined
              /\ isPending' = FALSE
              /\ UNCHANGED <<argsRef, calls>>
    /\ UNCHANGED <<props, callbackRef, nextId, cancelled, sinceTrigger,
                   trigLog>>

\* The host clock advances by one tick while a timer is counting down.
Tick ==
    /\ \E t \in timers : t.left > 0
    /\ timers' = {[id |-> t.id, left |-> IF t.left > 0 THEN t.left - 1 ELSE 0]
                    : t \in timers}
    /\ sinceTrigger' = sinceTrigger + 1
    /\ UNCHANGED <<props, hook, nextId, calls, cancelled, trigLog>>

\* A plausible slip: the unmount cleanup does not clear the timer.
UnmountNoClear ==
    /\ mounted
    /\ callbackRef = callback
    /\ mounted' = FALSE
    /\ UNCHANGED <<callback, delay, hook, host, calls, cancelled,
                   sinceTrigger, trigLog>>

\* The owning component unmounts: the cleanup of the mount effect runs.
\* Pending passive effects are run before the unmount is committed. The
\* owner makes no call on the hook's functions after the unmount.
Unmount ==
    /\ mounted
    /\ callbackRef = callback
    /\ mounted' = FALSE
    /\ timers' = ClearPending
    /\ UNCHANGED <<callback, delay, hook, nextId, calls, cancelled,
                   sinceTrigger, trigLog>>

Next ==
    \/ (\E c \in Callbacks, d \in Delays : Render(c, d)) /\ UNCHANGED others
    \/ CallbackEffect /\ UNCHANGED others
    \/ (\E args \in ArgLists : Debounced(args)) /\ UNCHANGED others
    \/ Cancel /\ UNCHANGED others
    \/ Flush /\ UNCHANGED others
    \/ (\E t \in timers : Fire(t)) /\ UNCHANGED others
    \/ Tick /\ UNCHANGED others
    \/ Unmount /\ UNCHANGED others

Spec == Init /\ [][Next]_allVars

\* The host timer service is fair: the clock advances and a timer whose
\* delay has elapsed fires.
FairSpec ==
    /\ Init
    /\ [][Next]_allVars
    /\ WF_allVars(Tick /\ UNCHANGED others)
    /\ WF_allVars((\E t \in timers : Fire(t)) /\ UNCHANGED others)

\* useAdvancedDebounce is not in use.
HookOff ==
    /\ mounted = FALSE
    /\ callback = InitialCallback
    /\ callbackRef = InitialCallback
    /\ delay = 0
    /\ timeoutRef = Undefined
    /\ argsRef = {}
    /\ isPending = FALSE
    /\ timers = {}
    /\ nextId = 1
    /\ calls = <<>>
    /\ cancelled = {}
    /\ sinceTrigger = 0
    /\ trigArgs = <<>>
    /\ trigDelay = 0
    /\ trigCb = InitialCallback
    /\ changed = {}

\* ------------------------------------------------- useDebounce: actions
\* Number of runs of the useDebounce effect a behaviour may make.
MaxEffects == 3

\* The effect has to run: the deps [value, delay] changed since its last
\* run, or it never ran.
DvEffectPending == dvDeps # <<dvValue, dvDelay>>

\* A render of the owning component with props (v, d). React runs pending
\* passive effects before it renders again.
DvRender(v, d) ==
    /\ dvMounted
    /\ ~DvEffectPending
    /\ dvNextId <= MaxEffects
    /\ <<v, d>> # <<dvValue, dvDelay>>
    /\ dvValue' = v
    /\ dvDelay' = d
    /\ UNCHANGED <<dvMounted, dvDebounced, dvDeps, dvTimer, dvTimers,
                   dvNextId, dvCleared>>

\* A plausible slip: the effect returns no cleanup.
DvNoCleanup == dvTimers

\* The timers left by the cleanup of the previous effect run:
\* return () => { clearTimeout(timer) }.
DvCleanup == {t \in dvTimers : t.id # dvTimer}

\* useEffect(..., [value, delay]): the cleanup of the previous run, then
\* const timer = setTimeout(() => setDebouncedValue(value), delay).
DvEffect ==
    /\ dvMounted
    /\ DvEffectPending
    /\ dvTimers' = DvCleanup
                     \cup {[id |-> dvNextId, left |-> dvDelay,
                            value |-> dvValue]}
    /\ dvTimer' = dvNextId
    /\ dvNextId' = dvNextId + 1
    /\ dvDeps' = <<dvValue, dvDelay>>
    /\ dvCleared' = dvCleared + Cardinality(dvTimers \ DvCleanup)
    /\ UNCHANGED <<dvMounted, dvValue, dvDelay, dvDebounced>>

\* The host fires a live timer whose delay has elapsed:
\* setDebouncedValue(value), with the value the timer's function closed
\* over.
DvFire(t) ==
    /\ t \in dvTimers
    /\ t.left = 0
    /\ dvTimers' = dvTimers \ {t}
    /\ dvDebounced' = t.value
    /\ UNCHANGED <<dvMounted, dvValue, dvDelay, dvDeps, dvTimer, dvNextId,
                   dvCleared>>

\* The host clock advances by one tick while a timer is counting down.
DvTick ==
    /\ \E t \in dvTimers : t.left > 0
    /\ dvTimers' = {[id |-> t.id, value |-> t.value,
                     left |-> IF t.left > 0 THEN t.left - 1 ELSE 0]
                       : t \in dvTimers}
    /\ UNCHANGED <<dvMounted, dvValue, dvDelay, dvDebounced, dvDeps,
                   dvTimer, dvNextId, dvCleared>>

\* The owning component unmounts: the cleanup of the last effect run runs.
DvUnmount ==
    /\ dvMounted
    /\ ~DvEffectPending
    /\ dvMounted' = FALSE
    /\ dvTimers' = DvCleanup
    /\ UNCHANGED <<dvValue, dvDelay, dvDebounced, dvDeps, dvTimer,
                   dvNextId, dvCleared>>

DvSpecInit == DvInit /\ HookOff /\ LsOff /\ DcOff /\ ToOff /\ RqOff

DvNext ==
    \/ (\E v \in DvValues, d \in Delays : DvRender(v, d)) /\ UNCHANGED dvRest
    \/ DvEffect /\ UNCHANGED dvRest
    \/ (\E t \in dvTimers : DvFire(t)) /\ UNCHANGED dvRest
    \/ DvTick /\ UNCHANGED dvRest
    \/ DvUnmount /\ UNCHANGED dvRest

\* The effect runs after the render that needs it, the clock advances and a
\* timer whose delay has elapsed fires.
DvSpec ==
    /\ DvSpecInit
    /\ [][DvNext]_allVars
    /\ WF_allVars(DvEffect /\ UNCHANGED dvRest)
    /\ WF_allVars(DvTick /\ UNCHANGED dvRest)
    /\ WF_allVars((\E t \in dvTimers : DvFire(t)) /\ UNCHANGED dvRest)

\* --------------------------------------------- useLocalStorage: actions
\* Number of undelivered 'storage' events.
MaxEvents == 1

\* The updater function a caller passes to setValue: (prev) => next.
Updater(prev) == (prev + 1) % 3

\* What setValue may be called with: a value, or the updater function.
LsArgs == [fn : {FALSE}, value : LsValues]
              \cup {[fn |-> TRUE, value |-> LsInitial]}

\* A plausible slip: the handler does not compare the event's key.
HandleAnyKey(key, newValue, cur) ==
    IF newValue # {}
      THEN IF Parses(TextOf(newValue)) THEN Parse(TextOf(newValue))
           ELSE LsInitial
      ELSE LsInitial

\* handleStorageChange(event): the state it leaves, from the state cur.
HandleStorageChange(key, newValue, cur) ==
    IF key = LsKey /\ newValue # {}
      THEN IF Parses(TextOf(newValue)) THEN Parse(TextOf(newValue))
           ELSE LsInitial
      ELSE IF key = LsKey /\ newValue = {} THEN LsInitial
           ELSE cur

\* A render of the owning component: setValue is re-created and closes over
\* the current storedValue (useCallback, deps [key, storedValue]).
LsRender ==
    /\ lsClosure # lsStored
    /\ lsClosure' = lsStored
    /\ UNCHANGED <<lsItem, lsStored, lsEvents, lsOp>>

\* setValue(value): setStoredValue(valueToStore), then setItem, which may
\* throw (the quota is exceeded); the error is caught and logged. After a
\* successful write the hook dispatches a 'storage' event in its own window,
\* which its own listener handles at once.
SetValue(arg, fails) ==
    LET valueToStore == IF arg.fn THEN Updater(lsClosure) ELSE arg.value
        text == {Stringify(valueToStore)}
    IN  /\ lsItem' = IF fails THEN lsItem ELSE text
        /\ lsStored' = IF fails THEN valueToStore
                       ELSE HandleStorageChange(LsKey, text, valueToStore)
        /\ lsOp' = LsLog(IF arg.fn THEN "update" ELSE "set", LsKey, text,
                         fails, lsStored)
        /\ UNCHANGED <<lsClosure, lsEvents>>

\* removeValue(): removeItem, setStoredValue(initialValue), and the event
\* with newValue null, handled at once.
RemoveValue ==
    /\ lsItem' = {}
    /\ lsStored' = HandleStorageChange(LsKey, {}, LsInitial)
    /\ lsOp' = LsLog("remove", LsKey, {}, FALSE, lsStored)
    /\ UNCHANGED <<lsClosure, lsEvents>>

\* Another tab writes (newValue = {t}) or removes (newValue = {}) an entry
\* of the shared localStorage; the browser queues a 'storage' event for
\* this tab.
OtherTabWrites(key, newValue) ==
    /\ Len(lsEvents) < MaxEvents
    /\ lsItem' = IF key = LsKey THEN newValue ELSE lsItem
    /\ lsEvents' = Append(lsEvents, [key |-> key, newValue |-> newValue])
    /\ UNCHANGED <<lsStored, lsClosure, lsOp>>

\* The browser delivers the oldest queued 'storage' event to the hook's
\* listener.
StorageEvent ==
    /\ lsEvents # <<>>
    /\ lsStored' = HandleStorageChange(Head(lsEvents).key,
                                       Head(lsEvents).newValue, lsStored)
    /\ lsEvents' = Tail(lsEvents)
    /\ lsOp' = LsLog("event", Head(lsEvents).key, Head(lsEvents).newValue,
                     FALSE, lsStored)
    /\ UNCHANGED <<lsItem, lsClosure>>

LsSpecInit == LsInit /\ HookOff /\ DvOff /\ DcOff /\ ToOff /\ RqOff

LsNext ==
    \/ LsRender /\ UNCHANGED lsRest
    \/ (\E arg \in LsArgs, fails \in BOOLEAN : SetValue(arg, fails))
           /\ UNCHANGED lsRest
    \/ RemoveValue /\ UNCHANGED lsRest
    \/ (\E key \in LsKeys, newValue \in LsItems :
           OtherTabWrites(key, newValue)) /\ UNCHANGED lsRest
    \/ StorageEvent /\ UNCHANGED lsRest

LsSpec == LsSpecInit /\ [][LsNext]_allVars

\* ------------------------------------------ useDebounceCallback: actions
\* A plausible slip: the previous timer is left running.
DcKeepPending == dcTimers

\* if (timeoutRef.current) { clearTimeout(timeoutRef.current) }
DcClearPending ==
    IF Truthy(dcTimeoutRef) THEN {t \in dcTimers : t.id # dcTimeoutRef}
    ELSE dcTimers

\* debouncedCallback(...args): the previous timer is cleared and a new one
\* is set, whose closure holds args; the delay is that of the latest render
\* (useCallback, deps [delay]).
DcDebounced(args) ==
    /\ mounted
    /\ dcNextId <= MaxTimers
    /\ dcTimers' = DcClearPending
                      \cup {[id |-> dcNextId, left |-> delay, args |-> args]}
    /\ dcTimeoutRef' = dcNextId
    /\ dcNextId' = dcNextId + 1
    /\ UNCHANGED <<dcCallbackRef, dcCalls>>

\* useEffect(() => { callbackRef.current = callback }, [callback])
DcCallbackEffect ==
    /\ dcCallbackRef # callback
    /\ dcCallbackRef' = callback
    /\ UNCHANGED <<dcTimeoutRef, dcTimers, dcNextId, dcCalls>>

\* The host fires a timer of the hook: callbackRef.current(...args) runs
\* with the arguments of the timer's closure. timeoutRef is not reset, and
\* nothing follows the call, so a raising callback changes nothing else.
DcFire(t) ==
    /\ t \in dcTimers
    /\ t.left = 0
    /\ dcTimers' = dcTimers \ {t}
    /\ dcCalls' = Append(dcCalls, [cb |-> dcCallbackRef, args |-> t.args,
                                    live |-> mounted])
    /\ UNCHANGED <<dcCallbackRef, dcTimeoutRef, dcNextId>>

\* The host clock advances by one tick.
DcTick ==
    /\ dcTimers' = {[id |-> t.id, left |-> IF t.left > 0 THEN t.left - 1 ELSE 0,
                     args |-> t.args] : t \in dcTimers}
    /\ UNCHANGED <<dcCallbackRef, dcTimeoutRef, dcNextId, dcCalls>>

\* The cleanup of the mount effect: the pending timer is cleared.
DcUnmount ==
    /\ dcTimers' = DcClearPending
    /\ UNCHANGED <<dcCallbackRef, dcTimeoutRef, dcNextId, dcCalls>>

\* ----------------------------- the two callback hooks side by side
\* One component uses both hooks with the same callback and delay, calls
\* both debounced functions together, and never calls cancel or flush.
\* Timers of the two hooks set at the same time with the same delay are due
\* together, and the host runs those that are due.
Due(ts) == {t \in ts : t.left = 0}

EqRender(c, d) ==
    /\ Render(c, d)
    /\ dcCallbackRef = callback
    /\ UNCHANGED dcVars

EqCallbackEffect ==
    /\ mounted
    /\ callbackRef # callback \/ dcCallbackRef # callback
    /\ IF callbackRef # callback THEN CallbackEffect ELSE UNCHANGED vars
    /\ IF dcCallbackRef # callback THEN DcCallbackEffect
                                    ELSE UNCHANGED dcVars

EqDebounced(args) ==
    /\ Debounced(args)
    /\ DcDebounced(args)

EqFire ==
    /\ Due(timers) # {} \/ Due(dcTimers) # {}
    /\ IF Due(timers) # {} THEN \E t \in timers : Fire(t)
                            ELSE UNCHANGED vars
    /\ IF Due(dcTimers) # {} THEN \E t \in dcTimers : DcFire(t)
                              ELSE UNCHANGED dcVars

EqTick ==
    /\ (timers \cup dcTimers) \ Due(timers \cup dcTimers) # {}
    /\ IF timers \ Due(timers) # {} THEN Tick ELSE UNCHANGED vars
    /\ DcTick

EqUnmount ==
    /\ Unmount
    /\ dcCallbackRef = callback
    /\ DcUnmount

EqInit ==
    /\ Init
    /\ DcInit
    /\ DvOff /\ LsOff /\ ToOff /\ RqOff

EqNext ==
    \/ (\E c \in Callbacks, d \in Delays : EqRender(c, d))
           /\ UNCHANGED eqRest
    \/ EqCallbackEffect /\ UNCHANGED eqRest
    \/ (\E args \in ArgLists : EqDebounced(args)) /\ UNCHANGED eqRest
    \/ EqFire /\ UNCHANGED eqRest
    \/ EqTick /\ UNCHANGED eqRest
    \/ EqUnmount /\ UNCHANGED eqRest

EqSpec == EqInit /\ [][EqNext]_allVars

\* ------------------------------------------------ ToastProvider: actions
\* Number of toasts a behaviour may create.
MaxToasts == 2

\* A plausible slip: dismiss empties the list.
DismissedAll(list, id) == <<>>

\* current.filter((toast) => toast.id !== id)
Dismissed(list, id) == SelectSeq(list, LAMBDA toast : toast.id # id)

\* notify(type, message, options): the toast is appended, and an
\* auto-dismiss timer is set when its duration is positive. The id is built
\* from Date.now() and Math.random(), taken here to differ from every id
\* given before.
Notify(opt) ==
    /\ toNextId <= MaxToasts
    /\ LET toast == [id |-> toNextId, duration |-> ToDuration(opt)]
       IN /\ toasts' = Append(toasts, toast)
          /\ toTimers' = IF toast.duration > 0
                            THEN toTimers \cup {[id |-> toast.id,
                                                 left |-> toast.duration]}
                            ELSE toTimers
          /\ toOp' = ToLog("notify", toast.id, toasts)
    /\ toNextId' = toNextId + 1

\* dismiss(id) called by the application, with the id of any toast created
\* so far. The toast's timer, if any, keeps running.
Dismiss(id) ==
    /\ id \in 1..(toNextId - 1)
    /\ toasts' = Dismissed(toasts, id)
    /\ toOp' = ToLog("dismiss", id, toasts)
    /\ UNCHANGED <<toTimers, toNextId>>

\* dismissAll(): setToasts([]). The timers keep running.
DismissAll ==
    /\ toasts # <<>>
    /\ toasts' = <<>>
    /\ toOp' = ToLog("dismissAll", 0, toasts)
    /\ UNCHANGED <<toTimers, toNextId>>

\* The host fires an auto-dismiss timer whose duration has elapsed:
\* dismiss(id) runs.
ToFire(t) ==
    /\ t \in toTimers
    /\ t.left = 0
    /\ toTimers' = toTimers \ {t}
    /\ toasts' = Dismissed(toasts, t.id)
    /\ toOp' = ToLog("fire", t.id, toasts)
    /\ UNCHANGED toNextId

\* The host clock advances by one step while a timer is counting down.
ToTick ==
    /\ \E t \in toTimers : t.left > 0
    /\ toTimers' = {[id |-> t.id,
                     left |-> IF t.left > ToStep THEN t.left - ToStep ELSE 0]
                       : t \in toTimers}
    /\ toOp' = ToLog("tick", 0, toasts)
    /\ UNCHANGED <<toasts, toNextId>>

ToSpecInit == ToInit /\ HookOff /\ DvOff /\ LsOff /\ DcOff /\ RqOff

ToNext ==
    \/ (\E opt \in ToDurationOptions : Notify(opt)) /\ UNCHANGED toRest
    \/ (\E id \in 1..MaxToasts : Dismiss(id)) /\ UNCHANGED toRest
    \/ DismissAll /\ UNCHANGED toRest
    \/ (\E t \in toTimers : ToFire(t)) /\ UNCHANGED toRest
    \/ ToTick /\ UNCHANGED toRest

\* The host timer service is fair: the clock advances and a timer whose
\* duration has elapsed fires.
ToSpec ==
    /\ ToSpecInit
    /\ [][ToNext]_allVars
    /\ WF_allVars(ToTick /\ UNCHANGED toRest)
    /\ WF_allVars((\E t \in toTimers : ToFire(t)) /\ UNCHANGED toRest)

\* -------------------------------------------------- queryClient: actions
\* Number of attempts a behaviour may make.
MaxAttempts == 5

\* A plausible slip: the status check is left out.
retryAnyError(failureCount, error) == failureCount < 3

\* queries.retry: (failureCount, error) => ...
retry(failureCount, error) ==
    IF error.instanceofApiError
         /\ (error.status = 401 \/ error.status = 403)
      THEN FALSE
      ELSE failureCount < 3

\* The retry option in force: the function for queries, false for
\* mutations.
ShouldRetry(kind, failureCount, error) ==
    IF kind = "query" THEN retry(failureCount, error) ELSE FALSE

\* A query or a mutation starts its first attempt.
RqFetch(kind) ==
    /\ rqState = "idle"
    /\ rqKind' = kind
    /\ rqState' = "fetching"
    /\ rqFailureCount' = 0
    /\ rqAttempts' = 1
    /\ UNCHANGED rqLog

\* An attempt fails with error: the library asks the retry option with the
\* number of failures before this one, and either counts the failure and
\* starts another attempt or ends the run with the error.
RqFails(error) ==
    /\ rqState = "fetching"
    /\ LET again == ShouldRetry(rqKind, rqFailureCount, error)
       IN /\ rqLog' = Append(rqLog, [failureCount |-> rqFailureCount,
                                      error |-> error, retried |-> again])
          /\ IF again
               THEN /\ rqAttempts < MaxAttempts
                    /\ rqFailureCount' = rqFailureCount + 1
                    /\ rqAttempts' = rqAttempts + 1
                    /\ UNCHANGED rqState
               ELSE /\ rqState' = "error"
                    /\ UNCHANGED <<rqFailureCount, rqAttempts>>
    /\ UNCHANGED rqKind

\* An attempt succeeds.
RqSucceeds ==
    /\ rqState = "fetching"
    /\ rqState' = "success"
    /\ UNCHANGED <<rqKind, rqFailureCount, rqAttempts, rqLog>>

RqSpecInit == RqInit /\ HookOff /\ DvOff /\ LsOff /\ DcOff /\ ToOff

RqNext ==
    \/ (\E kind \in RqKinds : RqFetch(kind)) /\ UNCHANGED rqRest
    \/ (\E error \in RqErrors : RqFails(error)) /\ UNCHANGED rqRest
    \/ RqSucceeds /\ UNCHANGED rqRest

RqSpec == RqSpecInit /\ [][RqNext]_allVars

\* ---------------------------------------------------------------- claims
Idx == 1..Len(calls)

\* The execution a step adds to the log.
NewCall == calls'[Len(calls')]
Executes == Len(calls') = Len(calls) + 1

\* The handle of the latest debounced() call.
LatestId == nextId - 1

\* C1: a burst of debounced calls, each made before the previous call's
\* timer fired, leads to one timer-fired execution only: it is the one of the
\* last call's timer, it happens once the last call's delay has elapsed, and
\* it passes the last call's arguments; no timer executes twice.
BurstRunsLastCallOnce ==
    /\ [][(Executes /\ NewCall.via = "timer") =>
             /\ NewCall.id = LatestId
             /\ NewCall.args = trigArgs
             /\ sinceTrigger >= trigDelay]_vars
    /\ [](\A i, j \in Idx :
             (i < j /\ calls[i].via = "timer" /\ calls[j].via = "timer")
                 => calls[i].id # calls[j].id)

\* A burst of two calls with different arguments and a positive delay was
\* executed once, by the second call's timer, with the second call's
\* arguments.
BurstWitness ==
    /\ "args" \in changed
    /\ trigDelay > 0
    /\ cancelled = {}
    /\ Len(calls) = 1
    /\ calls[1] = [cb |-> callbackRef, args |-> trigArgs, via |-> "timer",
                   threw |-> FALSE, id |-> LatestId, live |-> TRUE]
    /\ LatestId > 1

\* C2: while the component is mounted, isPending is true exactly when a
\* scheduled, not yet fired and not cancelled, timer exists.
PendingIffTimerLive == mounted => (isPending <=> timers # {})

\* C3: at most one timer is live, and it is the one of the latest debounced
\* call, which timeoutRef holds: a superseded timer is not live and cannot
\* fire.
OneLiveTimer ==
    /\ Cardinality(timers) <= 1
    /\ LiveIds \subseteq ({timeoutRef} \cap {LatestId})

\* A debounced call superseded a pending call scheduled with another delay.
SupersededWitness ==
    /\ "delay" \in changed
    /\ LatestId > 1
    /\ LiveIds = {LatestId}

\* C4: cancel() with a timer pending clears the timer, discards the stored
\* arguments, resets the pending flag and executes nothing; the cancelled
\* timer stays dead and its trigger is never executed.
CancelDiscardsTrigger ==
    /\ [][cancelled' # cancelled =>
             /\ timers' = {}
             /\ timeoutRef' = Undefined
             /\ argsRef' = {}
             /\ ~isPending'
             /\ calls' = calls]_vars
    /\ [](cancelled \cap LiveIds = {})
    /\ [](\A i \in Idx : calls[i].id \notin cancelled)

\* The latest trigger was cancelled while its timer was pending, and nothing
\* was executed.
CancelWitness ==
    /\ LatestId \in cancelled
    /\ calls = <<>>
    /\ ~isPending
    /\ argsRef = {}

\* The flush execution calls[i] was made with a timer pending: the trigger it
\* executes was not executed before.
FlushOfPending(i) ==
    /\ calls[i].via = "flush"
    /\ \A j \in 1..(i - 1) : calls[j].id # calls[i].id

\* C5: flush() with a timer pending executes the callback once, inside
\* flush, with the arguments of the most recent trigger; the trigger is not
\* executed a second time, and until the next trigger no timer is live and
\* the pending flag is false.
FlushRunsOnceAndClears ==
    \A i \in Idx : FlushOfPending(i) =>
        /\ \A j \in Idx : j # i => calls[j].id # calls[i].id
        /\ calls[i].id = LatestId =>
              /\ calls[i].args = trigArgs
              /\ timers = {}
              /\ ~isPending

\* C6: after an execution that raised, the same trigger's stored arguments
\* are not executed again.
NoRetryAfterFailure ==
    \A i, j \in Idx : (i < j /\ calls[i].threw) => calls[j].id # calls[i].id

\* C7: after the unmount no timer is live, and no timer-fired execution
\* happens while the component is unmounted.
NoFireAfterUnmount ==
    /\ ~mounted => timers = {}
    /\ \A i \in Idx : calls[i].via = "timer" => calls[i].live

\* The component was unmounted while the latest trigger's timer was pending.
UnmountWitness ==
    /\ ~mounted
    /\ timeoutRef = LatestId
    /\ LatestId >= 1
    /\ isPending
    /\ calls = <<>>

IdleCancelFlushNoOp ==
    [][(timers = {} /\ nextId' = nextId /\ mounted' = mounted
            /\ callbackRef' = callbackRef) =>
          /\ calls' = calls
          /\ timers' = timers
          /\ timeoutRef' = timeoutRef
          /\ argsRef' = argsRef
          /\ isPending' = isPending]_vars

\* C10: with delay = 0, debounced() executes nothing itself: it leaves one
\* live timer, to be fired in a later step, and a cancel() before that step
\* removes the timer without an execution.
ZeroDelayDefers ==
    /\ [][(nextId' # nextId /\ delay = 0) =>
             /\ calls' = calls
             /\ timers' = {[id |-> nextId, left |-> 0]}
             /\ isPending']_vars
    /\ [][(cancelled' # cancelled /\ trigDelay = 0) =>
             /\ calls' = calls
             /\ timers' = {}]_vars

\* A trigger with delay 0 was cancelled before its timer fired, and nothing
\* was executed.
ZeroDelayWitness ==
    /\ trigDelay = 0
    /\ LatestId \in cancelled
    /\ sinceTrigger = 0
    /\ calls = <<>>

\* C11: the debounced value changes only when a timer fires, and becomes the
\* value of the render whose effect scheduled the timer; the only live timer
\* is the one of the latest effect run (every change of value or delay
\* cancels the previous timer), so the debounced value stays as it is while
\* no timer's delay has elapsed; and once the input stays unchanged the
\* debounced value becomes, and stays, the latest input.
DebouncedFollowsInput ==
    /\ [][dvDebounced' # dvDebounced =>
             \E t \in dvTimers :
                 /\ t.left = 0
                 /\ t \notin dvTimers'
                 /\ dvDebounced' = t.value]_allVars
    /\ [](\A t \in dvTimers :
             /\ t.id = dvTimer
             /\ <<t.value, t.left>> \in {dvDeps[1]} \X (0..dvDeps[2]))
    /\ <>[](dvMounted => dvDebounced = dvValue)

\* The input changed while a timer was pending, the pending timer was
\* cancelled, and the debounced value then became the latest input.
DebouncedWitness ==
    /\ dvMounted
    /\ dvCleared >= 2
    /\ dvTimers = {}
    /\ dvDebounced = dvValue
    /\ dvDebounced # DvInitialValue

\* C12: a 'storage' event for the hook's key sets the value to the parsed
\* newValue, or to initialValue when newValue is null or no JSON text; an
\* event for another key leaves the value as it was.
StorageEventSetsValue ==
    lsOp.op = "event" =>
        lsStored =
            IF lsOp.key # LsKey THEN lsOp.prev
            ELSE IF lsOp.newValue = {} THEN LsInitial
            ELSE IF \E v \in LsValues : lsOp.newValue = {Stringify(v)}
                   THEN CHOOSE v \in LsValues : lsOp.newValue = {Stringify(v)}
            ELSE LsInitial

\* An event for another key left a value other than initialValue in place.
StorageEventWitness ==
    /\ lsOp.op = "event"
    /\ lsOp.key # LsKey
    /\ lsOp.newValue # {}
    /\ lsStored # LsInitial
    /\ lsStored # ReadValue(lsOp.newValue)

\* C18: with no event to deliver, the hook's value is the parsed entry of
\* the storage, or initialValue when the entry is absent, also after a
\* setValue whose write failed; and a setValue with an updater leaves the
\* updater's result for the value the previous call left.
StoredMirrorsStorage ==
    /\ lsEvents = <<>> => lsStored = ReadValue(lsItem)
    /\ lsOp.op = "update" => lsStored = Updater(lsOp.prev)

\* C13: the pending flag follows the machine Idle/Pending: it starts false;
\* a debounced call leaves it true; a step that removes the live timer
\* while the component stays mounted (the timer fires, cancel, flush) starts
\* with the flag true and leaves it false; a render, an effect, a clock tick
\* and the unmount leave it as it is; and a timer is live only while the
\* flag is true.
TwoStateMachine ==
    /\ ~isPending
    /\ [](timers # {} => isPending)
    /\ [][/\ nextId' # nextId => isPending'
          /\ (LiveIds' # LiveIds /\ nextId' = nextId /\ mounted')
                => (isPending /\ ~isPending')
          /\ (callback' # callback \/ delay' # delay
                 \/ callbackRef' # callbackRef \/ mounted' # mounted
                 \/ (timers' # timers /\ LiveIds' = LiveIds))
                => isPending' = isPending]_vars

\* C14: under a fair host timer service a pending controller of a mounted
\* component does not stay pending for ever: the flag becomes false (or the
\* component unmounts, or the behaviour has used up its executions).
PendingEventuallyIdle ==
    (mounted /\ isPending) ~> (~mounted \/ ~isPending \/ Len(calls) = MaxCalls)

\* C15: a step that replaces the callback (the render that passes it, the
\* effect that binds it) leaves the pending timer, its remaining delay, the
\* stored arguments, the pending flag and the executions as they are.
RebindKeepsPending ==
    [][(callback' # callback \/ callbackRef' # callbackRef) =>
          /\ timers' = timers
          /\ timeoutRef' = timeoutRef
          /\ argsRef' = argsRef
          /\ isPending' = isPending
          /\ calls' = calls]_vars

\* The callback was replaced after the latest trigger, whose timer is still
\* pending with its delay not yet elapsed.
RebindWitness ==
    /\ callbackRef # trigCb
    /\ timers = {[id |-> LatestId, left |-> trigDelay]}
    /\ trigDelay > 0
    /\ timeoutRef = LatestId
    /\ argsRef = {trigArgs}
    /\ isPending

\* C16: with cancel and flush never called, useDebounceCallback and
\* useAdvancedDebounce given the same calls, renders, timer firings and
\* unmount have executed the callback the same number of times, with the
\* same callback and arguments in the same order, in every state (so each
\* execution of one falls in the step of the other's), and neither has
\* executed it after the unmount.
SameExecutions ==
    /\ Len(dcCalls) = Len(calls)
    /\ \A i \in Idx :
          /\ dcCalls[i].cb = calls[i].cb
          /\ dcCalls[i].args = calls[i].args
          /\ dcCalls[i].live /\ calls[i].live

\* Both hooks have executed twice, with different callbacks and different
\* arguments, and the component has unmounted.
SameExecutionsWitness ==
    /\ ~mounted
    /\ Len(dcCalls) = 2
    /\ dcCalls[1].cb # dcCalls[2].cb
    /\ dcCalls[1].args # dcCalls[2].args

\* The toast with this id, as listed.
Listed(list, id) == {list[i] : i \in {j \in 1..Len(list) : list[j].id = id}}

RetryPolicy ==
    /\ \A i \in 1..Len(rqLog) :
          rqLog[i].retried <=>
              /\ rqKind = "query"
              /\ rqLog[i].failureCount < 3
              /\ ~(/\ rqLog[i].error.instanceofApiError
                    /\ rqLog[i].error.status \in {401, 403})
    /\ rqAttempts <= IF rqKind = "query" THEN 4 ELSE 1
    /\ Len(rqLog) = 4 => rqState = "error"

\* A query failed four times with errors that are retried, one of them an
\* error of status 401 that is no ApiError, and the run has ended.
RetryWitness ==
    /\ rqKind = "query"
    /\ rqAttempts = 4
    /\ rqState = "error"
    /\ Len(rqLog) = 4
    /\ \E i \in 1..3 : rqLog[i].error.status = 401
    /\ ~rqLog[4].error.instanceofApiError

====
